---- MODULE Spec2Model ----
(***************************************************************************)
(* Emision de carnes de la Biblioteca (src/ex.py).                         *)
(*                                                                         *)
(* A Python str is modelled as a sequence of one-character strings, bytes  *)
(* as a sequence of integers 0..255, a float fee as the number it equals   *)
(* (10.0 is 10), a datetime.date as <<year, month, day>>, an exception as  *)
(* a record [clase, msg, arg] and "no exception" as None.                  *)
(*                                                                         *)
(* GestorCarne.emitir_carne is modelled statement by statement: pc is the  *)
(* step the run is at (Validate, ComputeFee, Render, Persist, Notify,      *)
(* Print), or Done (the dict was returned) or Aborted (an exception left   *)
(* the method).  calls is what a recording double of every collaborator    *)
(* would have seen during the current run.                                 *)
(***************************************************************************)
EXTENDS Integers, Sequences, FiniteSets, TLC

VARIABLES
    pc,             \* position of the current run inside emitir_carne
    usuario,        \* the Usuario handed to emitir_carne
    validator,      \* GestorCarne.validator      (kind of the injected object)
    card_generator, \* GestorCarne.card_generator (kind of the injected object)
    repo,           \* GestorCarne.repo           (kind of the injected object)
    notifier,       \* GestorCarne.notifier       (kind of the injected object)
    printer,        \* GestorCarne.printer        (kind of the injected object)
    costo,          \* local costo of emitir_carne (NoCosto before line 176)
    carne_bin,      \* local carne_bin of emitir_carne (<<>> before line 177)
    store,          \* InMemoryRepository._store
    store0,         \* history: _store when the current run was entered
    guardados,      \* history: the Usuario of every run that executed line 178
                    \*          against the InMemoryRepository, in order
    calls,          \* history: collaborator methods entered by the current run
    logged,         \* lines printed by the except blocks of the current run
    err,            \* exception that left emitir_carne (None if none)
    result,         \* dict returned by emitir_carne (NoResult if none)
    emitidos,       \* number of Usuario.nuevo calls so far (uuid4 source)
    hoy             \* datetime.date.today()

vars == <<pc, usuario, validator, card_generator, repo, notifier, printer, costo,
          carne_bin, store, store0, guardados, calls, logged, err, result, emitidos, hoy>>

----------------------------------------------------------------------------
(* Bounds of the model *)

\* runs of the driver (Usuario.nuevo + emitir_carne) in one behaviour
MaxRuns == 2

\* longest nombre enumerated for the validator
MaxNombreLen == 2

\* longest correo enumerated for the validator
MaxCorreoLen == 5

----------------------------------------------------------------------------
(* Strings *)


\* the whitespace characters of str.isspace() besides space, \t, \n, \r, \f
\* U+000B, vertical tab
VT == ""

\* U+001C, file separator
FS == ""

\* U+001D, group separator
GS == ""

\* U+001E, record separator
RS == ""

\* U+001F, unit separator
US == ""

\* U+0085, next line
NEL == ""

\* U+00A0, no-break space
NBSP == " "

\* U+1680, ogham space mark
OGHAM == " "

\* characters str.strip() removes: those for which str.isspace() holds.  The
\* remaining ones (U+2000..U+200A, U+2028, U+2029, U+202F, U+205F, U+3000)
\* cannot be written in a string of this module, so no string here holds them.
Whitespace == {" ", "\t", "\n", "\r", "\f", VT, FS, GS, RS, US, NEL, NBSP, OGHAM}

RECURSIVE lstrip(_)
lstrip(s) ==
    IF s # <<>> /\ Head(s) \in Whitespace THEN lstrip(Tail(s)) ELSE s

RECURSIVE rstrip(_)
rstrip(s) ==
    IF s # <<>> /\ s[Len(s)] \in Whitespace
    THEN rstrip(SubSeq(s, 1, Len(s) - 1))
    ELSE s

\* str.strip()
strip(s) == rstrip(lstrip(s))

\* c in s, for a one-character c
Contiene(c, s) == \E i \in 1..Len(s) : s[i] = c

\* every string over S of length at most n
Cadenas(S, n) == UNION {[1..k -> S] : k \in 0..n}

Digitos == <<"0", "1", "2", "3", "4", "5", "6", "7", "8", "9">>

\* str(n) for an int n >= 0
RECURSIVE str(_)
str(n) ==
    IF n < 10 THEN <<Digitos[n + 1]>> ELSE str(n \div 10) \o <<Digitos[(n % 10) + 1]>>

\* str.zfill(width)
RECURSIVE zfill(_, _)
zfill(s, width) == IF Len(s) >= width THEN s ELSE zfill(<<"0">> \o s, width)

\* f"{x:.2f}" for a float x that holds a whole number >= 0
format_2f(x) == str(x) \o <<".", "0", "0">>

\* code point of a character
ord ==
    (" " :> 32) @@ ("!" :> 33) @@ ("#" :> 35) @@ ("$" :> 36) @@ ("%" :> 37) @@
    ("&" :> 38) @@ ("(" :> 40) @@ (")" :> 41) @@ ("*" :> 42) @@
    ("+" :> 43) @@ ("," :> 44) @@ ("-" :> 45) @@ ("." :> 46) @@ ("/" :> 47) @@
    ("0" :> 48) @@ ("1" :> 49) @@ ("2" :> 50) @@ ("3" :> 51) @@ ("4" :> 52) @@
    ("5" :> 53) @@ ("6" :> 54) @@ ("7" :> 55) @@ ("8" :> 56) @@ ("9" :> 57) @@
    (":" :> 58) @@ (";" :> 59) @@ ("<" :> 60) @@ ("=" :> 61) @@ (">" :> 62) @@
    ("?" :> 63) @@ ("@" :> 64) @@ ("A" :> 65) @@ ("B" :> 66) @@ ("C" :> 67) @@
    ("D" :> 68) @@ ("E" :> 69) @@ ("F" :> 70) @@ ("G" :> 71) @@ ("H" :> 72) @@
    ("I" :> 73) @@ ("J" :> 74) @@ ("K" :> 75) @@ ("L" :> 76) @@ ("M" :> 77) @@
    ("N" :> 78) @@ ("O" :> 79) @@ ("P" :> 80) @@ ("Q" :> 81) @@ ("R" :> 82) @@
    ("S" :> 83) @@ ("T" :> 84) @@ ("U" :> 85) @@ ("V" :> 86) @@ ("W" :> 87) @@
    ("X" :> 88) @@ ("Y" :> 89) @@ ("Z" :> 90) @@ ("[" :> 91) @@ ("]" :> 93) @@
    ("^" :> 94) @@ ("_" :> 95) @@ ("a" :> 97) @@ ("b" :> 98) @@
    ("c" :> 99) @@ ("d" :> 100) @@ ("e" :> 101) @@ ("f" :> 102) @@ ("g" :> 103) @@
    ("h" :> 104) @@ ("i" :> 105) @@ ("j" :> 106) @@ ("k" :> 107) @@ ("l" :> 108) @@
    ("m" :> 109) @@ ("n" :> 110) @@ ("o" :> 111) @@ ("p" :> 112) @@ ("q" :> 113) @@
    ("r" :> 114) @@ ("s" :> 115) @@ ("t" :> 116) @@ ("u" :> 117) @@ ("v" :> 118) @@
    ("w" :> 119) @@ ("x" :> 120) @@ ("y" :> 121) @@ ("z" :> 122) @@ ("{" :> 123) @@
    ("|" :> 124) @@ ("}" :> 125) @@ ("~" :> 126) @@ ("\n" :> 10) @@ ("\t" :> 9) @@
    ("á" :> 225) @@ ("é" :> 233) @@ ("í" :> 237) @@ ("ó" :> 243) @@ ("ú" :> 250) @@
    ("ñ" :> 241) @@ ("Á" :> 193) @@ ("É" :> 201) @@ ("Í" :> 205) @@ ("Ó" :> 211) @@
    ("Ú" :> 218) @@ ("Ñ" :> 209) @@ ("\r" :> 13) @@ ("\f" :> 12) @@
    (VT :> 11) @@ (FS :> 28) @@ (GS :> 29) @@ (RS :> 30) @@ (US :> 31) @@ (NEL :> 133) @@
    (NBSP :> 160) @@ (OGHAM :> 5760)

\* the UTF-8 bytes of one character
utf8(c) ==
    LET cp == ord[c]
    IN  IF cp < 128 THEN <<cp>>
        ELSE IF cp < 2048 THEN <<192 + (cp \div 64), 128 + (cp % 64)>>
        ELSE <<224 + (cp \div 4096), 128 + ((cp \div 64) % 64), 128 + (cp % 64)>>

\* str.encode("utf-8"): an all-ASCII string is its code points, any other
\* string the concatenation of the encodings of its halves
RECURSIVE encode(_)
encode(s) ==
    IF \A i \in 1..Len(s) : ord[s[i]] < 128
    THEN [i \in 1..Len(s) |-> ord[s[i]]]
    ELSE IF Len(s) = 1 THEN utf8(s[1])
    ELSE LET m == Len(s) \div 2
         IN  encode(SubSeq(s, 1, m)) \o encode(SubSeq(s, m + 1, Len(s)))

----------------------------------------------------------------------------
(* Exceptions *)

None == [clase |-> "None", msg |-> "", arg |-> <<>>]

\* ValueError(f"{msg}{arg}")
ValueError(msg, arg) == [clase |-> "ValueError", msg |-> msg, arg |-> arg]

\* an exception raised by an injected collaborator (a subclass of Exception)
Fallo(clase) == [clase |-> clase, msg |-> "", arg |-> <<>>]

----------------------------------------------------------------------------
(* Usuario *)

estudiante_pre ==
    <<"e", "s", "t", "u", "d", "i", "a", "n", "t", "e", "_", "p", "r", "e">>

estudiante_pos ==
    <<"e", "s", "t", "u", "d", "i", "a", "n", "t", "e", "_", "p", "o", "s">>

docente ==
    <<"d", "o", "c", "e", "n", "t", "e">>

administrativo ==
    <<"a", "d", "m", "i", "n", "i", "s", "t", "r", "a", "t", "i", "v", "o">>

externo ==
    <<"e", "x", "t", "e", "r", "n", "o">>

\* str(uuid.uuid4()): the n-th identifier drawn; 36 characters, version 4,
\* distinct for distinct n
uuid4(n) ==
    <<"0", "0", "0", "0", "0", "0", "0", "0", "-", "0", "0", "0", "0", "-",
      "4", "0", "0", "0", "-", "8", "0", "0", "0", "-">> \o zfill(str(n), 12)

\* Usuario.nuevo as a plausible bug would have it: a fixed identifier
nuevoIdFijo(nombre, correo, tipo) ==
    [id |-> uuid4(0), nombre |-> nombre, correo |-> correo, tipo |-> tipo,
     fecha_registro |-> hoy]

\* Usuario.nuevo
nuevo(nombre, correo, tipo) ==
    [id |-> uuid4(emitidos + 1), nombre |-> nombre, correo |-> correo, tipo |-> tipo,
     fecha_registro |-> hoy]

\* datetime.date.isoformat()
isoformat(fecha) ==
    zfill(str(fecha[1]), 4) \o <<"-">> \o zfill(str(fecha[2]), 2) \o <<"-">>
        \o zfill(str(fecha[3]), 2)

----------------------------------------------------------------------------
(* UsuarioValidator *)

\* the local set tipos of UsuarioValidator.validar
tipos == {estudiante_pre, estudiante_pos, docente, administrativo, externo}

\* validar as a plausible bug would have it: the lengths taken without strip()
validarSinStrip(u) ==
    IF u.nombre = <<>> \/ Len(u.nombre) < 2
    THEN ValueError("Nombre inválido", <<>>)
    ELSE IF ~Contiene("@", u.correo) \/ Len(u.correo) < 5
    THEN ValueError("Correo inválido", <<>>)
    ELSE IF u.tipo \notin tipos
    THEN ValueError("Tipo de usuario desconocido: ", u.tipo)
    ELSE None

\* validar as a plausible bug would have it: the correo checked before the nombre
validarCorreoPrimero(u) ==
    IF ~Contiene("@", u.correo) \/ Len(strip(u.correo)) < 5
    THEN ValueError("Correo inválido", <<>>)
    ELSE IF u.nombre = <<>> \/ Len(strip(u.nombre)) < 2
    THEN ValueError("Nombre inválido", <<>>)
    ELSE IF u.tipo \notin tipos
    THEN ValueError("Tipo de usuario desconocido: ", u.tipo)
    ELSE None

\* UsuarioValidator.validar: the exception it raises, None if it returns
validar(u) ==
    IF u.nombre = <<>> \/ Len(strip(u.nombre)) < 2
    THEN ValueError("Nombre inválido", <<>>)
    ELSE IF ~Contiene("@", u.correo) \/ Len(strip(u.correo)) < 5
    THEN ValueError("Correo inválido", <<>>)
    ELSE IF u.tipo \notin tipos
    THEN ValueError("Tipo de usuario desconocido: ", u.tipo)
    ELSE None

----------------------------------------------------------------------------
(* CostoFactory and the ICostoCarne strategies *)

\* CostoFactory._mapping
mapping ==
    (estudiante_pre :> "CostoEstudiantePre") @@ (estudiante_pos :> "CostoEstudiantePos")
        @@ (docente :> "CostoDocente") @@ (administrativo :> "CostoAdministrativo")
        @@ (externo :> "CostoExterno")

\* get_costo_strategy as a plausible bug would have it: a default strategy
get_costo_strategy_default(tipo) ==
    IF tipo \notin DOMAIN mapping
    THEN [exc |-> None, val |-> "CostoExterno"]
    ELSE [exc |-> None, val |-> mapping[tipo]]

\* CostoFactory.get_costo_strategy: exc is the exception raised (None if it
\* returns), val the class instantiated
get_costo_strategy(tipo) ==
    IF tipo \notin DOMAIN mapping
    THEN [exc |-> ValueError("No hay estrategia de costo para tipo: ", tipo),
          val |-> "None"]
    ELSE [exc |-> None, val |-> mapping[tipo]]

\* calcular as a plausible bug would have it: two strategies' amounts swapped
calcularIntercambiado(strategy, u) ==
    CASE strategy = "CostoEstudiantePre" -> 10
      [] strategy = "CostoEstudiantePos" -> 12
      [] strategy = "CostoDocente" -> 6
      [] strategy = "CostoAdministrativo" -> 5
      [] strategy = "CostoExterno" -> 20

\* ICostoCarne.calcular of an instance of class strategy
calcular(strategy, u) ==
    CASE strategy = "CostoEstudiantePre" -> 10
      [] strategy = "CostoEstudiantePos" -> 12
      [] strategy = "CostoDocente" -> 5
      [] strategy = "CostoAdministrativo" -> 6
      [] strategy = "CostoExterno" -> 20

----------------------------------------------------------------------------
(* SimpleCardGenerator *)

EtiquetaCarne ==
    <<"C", "A", "R", "N", "E", " ", "B", "I", "B", "L", "I", "O", "T", "E", "C", "A", " ",
      "U", "N", "S", "C", "H", "\n">>

EtiquetaNombre ==
    <<"N", "o", "m", "b", "r", "e", ":", " ">>

EtiquetaID ==
    <<"I", "D", ":", " ">>

EtiquetaTipo ==
    <<"T", "i", "p", "o", ":", " ">>

EtiquetaCosto ==
    <<"C", "o", "s", "t", "o", ":", " ", "S", "/", " ">>

EtiquetaFecha ==
    <<"F", "e", "c", "h", "a", ":", " ">>

\* SimpleCardGenerator.generar
generar(u, c) ==
    LET contenido ==
            EtiquetaCarne
                \o EtiquetaNombre \o u.nombre \o <<"\n">>
                \o EtiquetaID \o u.id \o <<"\n">>
                \o EtiquetaTipo \o u.tipo \o <<"\n">>
                \o EtiquetaCosto \o format_2f(c) \o <<"\n">>
                \o EtiquetaFecha \o isoformat(u.fecha_registro) \o <<"\n">>
    IN  encode(contenido)

----------------------------------------------------------------------------
(* InMemoryRepository *)

\* guardar_usuario as a plausible bug would have it: one record per member,
\* a later record of the same nombre, correo and tipo replacing the earlier
guardar_usuario_dedup(s, u, c, bin) ==
    LET mismo(r) ==
            /\ r.usuario.nombre = u.nombre
            /\ r.usuario.correo = u.correo
            /\ r.usuario.tipo = u.tipo
    IN  SelectSeq(s, LAMBDA r : ~mismo(r))
            \o <<[usuario |-> u, costo |-> c, carne |-> bin]>>

\* InMemoryRepository.guardar_usuario: _store after the call
guardar_usuario(s, u, c, bin) ==
    Append(s, [usuario |-> u, costo |-> c, carne |-> bin])

----------------------------------------------------------------------------
(* Kinds of collaborator a GestorCarne is built with.  The first of each   *)
(* set is the class of src/ex.py; the others are injected implementations  *)
(* of the same interface.                                                  *)

\* AceptaTodo: an IUserValidator whose validar returns for every Usuario
Validators == {"UsuarioValidator", "AceptaTodo"}

\* GeneradorFallido: an ICardGenerator whose generar raises
Generators == {"SimpleCardGenerator", "GeneradorFallido"}

\* MySQLRepository: the stub of src/ex.py, whose guardar_usuario only prints;
\* RepoFallido: an IRepository whose guardar_usuario raises
Repos == {"InMemoryRepository", "MySQLRepository", "RepoFallido"}

\* NotifierFallido: an INotifier whose enviar raises
Notifiers == {"EmailNotifier", "NotifierFallido"}

\* PrinterFallido: an IPrinter whose imprimir raises
Printers == {"ConsolePrinter", "PrinterFallido"}

----------------------------------------------------------------------------
(* Inputs *)

otro == <<"o", "t", "r", "o">>

\* members the runs of Spec are made for
NombresRun == {<<"X">>, <<"A", "n", "a">>}

CorreosRun == {<<"b", "a", "d">>, <<"a", "@", "u", ".", "e">>}

TiposRun == tipos \cup {otro}

\* members the validator is enumerated on: a letter, two of the whitespace
\* characters and, for the correo, the "@"
AlfabetoNombre == {"a", " ", VT}

AlfabetoCorreo == {"a", " ", VT, "@"}

NombresValidar == Cadenas(AlfabetoNombre, MaxNombreLen)

CorreosValidar == Cadenas(AlfabetoCorreo, MaxCorreoLen)

Fechas == {<<2024, 1, 5>>, <<2025, 12, 31>>}

----------------------------------------------------------------------------
(* GestorCarne.emitir_carne *)

NoUsuario ==
    [id |-> <<>>, nombre |-> <<>>, correo |-> <<>>, tipo |-> <<>>,
     fecha_registro |-> <<1, 1, 1>>]

NoResult == [usuario_id |-> <<>>, costo |-> -1]

\* one entry of calls: the method entered and its arguments
Llamada(op, args) == [op |-> op, args |-> args]

asunto == "Su carné de la Biblioteca Central - UNSCH"

CuerpoSaludo ==
    <<"E", "s", "t", "i", "m", "a", "d", "o", "/", "a", " ">>

CuerpoListo ==
    <<",", "\n", "S", "u", " ", "c", "a", "r", "n", "é", " ", "e", "s", "t", "á", " ", "l",
      "i", "s", "t", "o", ".", "\n", "C", "o", "s", "t", "o", ":", " ", "S", "/", " ">>

CuerpoID ==
    <<"\n", "I", "D", ":", " ">>

\* the local cuerpo of emitir_carne
cuerpo(u, c) ==
    CuerpoSaludo \o u.nombre \o CuerpoListo \o format_2f(c) \o CuerpoID \o u.id
        \o <<"\n">>

Init ==
    /\ pc = "Idle"
    /\ usuario = NoUsuario
    /\ validator = "UsuarioValidator"
    /\ card_generator = "SimpleCardGenerator"
    /\ repo = "InMemoryRepository"
    /\ notifier = "EmailNotifier"
    /\ printer = "ConsolePrinter"
    /\ costo = -1
    /\ carne_bin = <<>>
    /\ store = <<>>
    /\ store0 = <<>>
    /\ guardados = <<>>
    /\ calls = <<>>
    /\ logged = <<>>
    /\ err = None
    /\ result = NoResult
    /\ emitidos = 0
    /\ hoy \in Fechas

\* GestorCarne(validator, repo, notifier, card_generator, printer), then
\* u = Usuario.nuevo(nombre, correo, tipo) and the entry into emitir_carne(u)
Entrar(nombre, correo, tipo, v, g, r, n, p) ==
    /\ pc \in {"Idle", "Done", "Aborted"}
    /\ usuario' = nuevo(nombre, correo, tipo)
    /\ emitidos' = emitidos + 1
    /\ validator' = v
    /\ card_generator' = g
    /\ repo' = r
    /\ notifier' = n
    /\ printer' = p
    /\ pc' = "Validate"
    /\ costo' = -1
    /\ carne_bin' = <<>>
    /\ store0' = store
    /\ calls' = <<>>
    /\ logged' = <<>>
    /\ err' = None
    /\ result' = NoResult
    /\ UNCHANGED <<store, guardados, hoy>>

\* The kinds a collaborator slot may turn out to hold.  A run calls each
\* collaborator at most once, so a slot left "Pendiente" at construction and
\* drawn at its call gives the same runs as drawing all five at construction.
Elegir(slot, kinds) == IF slot = "Pendiente" THEN kinds ELSE {slot}

\* a run of the driver, with any collaborators, for a member of the run inputs
Iniciar ==
    /\ emitidos < MaxRuns
    /\ \E nombre \in NombresRun, correo \in CorreosRun, tipo \in TiposRun :
            Entrar(nombre, correo, tipo, "Pendiente", "Pendiente", "Pendiente",
                   "Pendiente", "Pendiente")

\* the one run of the driver as src/ex.py builds it, for any enumerated member
IniciarValidar ==
    /\ emitidos = 0
    /\ \E nombre \in NombresValidar, correo \in CorreosValidar, tipo \in TiposRun :
            Entrar(nombre, correo, tipo, "UsuarioValidator", "SimpleCardGenerator",
                   "InMemoryRepository", "EmailNotifier", "ConsolePrinter")

\* line 174 as a plausible bug would have it: the ValueError caught and printed
ValidateTolerante ==
    /\ pc = "Validate"
    /\ calls' = Append(calls, Llamada("validar", <<usuario>>))
    /\ \E v \in Elegir(validator, Validators) :
        /\ validator' = v
        /\ LET e == IF v = "UsuarioValidator" THEN validar(usuario) ELSE None
           IN  IF e # None
               THEN logged' = Append(logged, "[GestorCarne] Error validando usuario: ")
               ELSE logged' = logged
    /\ pc' = "ComputeFee"
    /\ UNCHANGED <<usuario, card_generator, repo, notifier, printer, costo, carne_bin,
                   store, store0, guardados, err, result, emitidos, hoy>>

\* line 174: self.validator.validar(usuario)
Validate ==
    /\ pc = "Validate"
    /\ calls' = Append(calls, Llamada("validar", <<usuario>>))
    /\ \E v \in Elegir(validator, Validators) :
        /\ validator' = v
        /\ LET e == IF v = "UsuarioValidator" THEN validar(usuario) ELSE None
           IN  IF e # None
               THEN /\ err' = e
                    /\ pc' = "Aborted"
               ELSE /\ err' = err
                    /\ pc' = "ComputeFee"
    /\ UNCHANGED <<usuario, card_generator, repo, notifier, printer, costo, carne_bin,
                   store, store0, guardados, logged, result, emitidos, hoy>>

\* lines 175-176: CostoFactory.get_costo_strategy(usuario.tipo), then calcular
ComputeFee ==
    /\ pc = "ComputeFee"
    /\ LET s == get_costo_strategy(usuario.tipo)
       IN  IF s.exc # None
           THEN /\ calls' = Append(calls, Llamada("get_costo_strategy", <<usuario.tipo>>))
                /\ err' = s.exc
                /\ pc' = "Aborted"
                /\ costo' = costo
           ELSE /\ calls' = calls \o <<Llamada("get_costo_strategy", <<usuario.tipo>>),
                                       Llamada("calcular", <<usuario>>)>>
                /\ err' = err
                /\ pc' = "Render"
                /\ costo' = calcular(s.val, usuario)
    /\ UNCHANGED <<usuario, validator, card_generator, repo, notifier, printer,
                   carne_bin, store, store0, guardados, logged, result, emitidos, hoy>>

\* line 177: self.card_generator.generar(usuario, costo)
Render ==
    /\ pc = "Render"
    /\ calls' = Append(calls, Llamada("generar", <<usuario, costo>>))
    /\ \E g \in Elegir(card_generator, Generators) :
        /\ card_generator' = g
        /\ IF g = "SimpleCardGenerator"
           THEN /\ carne_bin' = generar(usuario, costo)
                /\ err' = err
                /\ pc' = "Persist"
           ELSE /\ carne_bin' = carne_bin
                /\ err' = Fallo("RenderError")
                /\ pc' = "Aborted"
    /\ UNCHANGED <<usuario, validator, repo, notifier, printer, costo, store, store0,
                   guardados, logged, result, emitidos, hoy>>

\* line 178 as a plausible bug would have it: a failed save caught and printed
PersistTolerante ==
    /\ pc = "Persist"
    /\ calls' = Append(calls, Llamada("guardar_usuario", <<usuario, costo, carne_bin>>))
    /\ \E r \in Elegir(repo, Repos) :
        /\ repo' = r
        /\ IF r = "InMemoryRepository"
           THEN /\ store' = guardar_usuario(store, usuario, costo, carne_bin)
                /\ guardados' = Append(guardados, usuario)
                /\ logged' = logged
           ELSE IF r = "MySQLRepository"
           THEN /\ store' = store
                /\ guardados' = guardados
                /\ logged' = logged
           ELSE /\ store' = store
                /\ guardados' = guardados
                /\ logged' = Append(logged, "[GestorCarne] Error guardando usuario: ")
    /\ pc' = "Notify"
    /\ UNCHANGED <<usuario, validator, card_generator, notifier, printer, costo,
                   carne_bin, store0, err, result, emitidos, hoy>>

\* lines 178-185 as a plausible bug would have it: the notification sent
\* before the record is saved
PersistDespuesDeNotify ==
    /\ pc = "Persist"
    /\ calls' = calls \o <<Llamada("enviar", <<usuario.correo, asunto,
                                               cuerpo(usuario, costo), carne_bin>>),
                           Llamada("guardar_usuario", <<usuario, costo, carne_bin>>)>>
    /\ \E n \in Elegir(notifier, Notifiers) :
        /\ notifier' = n
        /\ IF n = "EmailNotifier"
           THEN logged' = logged
           ELSE logged' = Append(logged, "[GestorCarne] Error enviando notificación: ")
    /\ \E r \in Elegir(repo, Repos) :
        /\ repo' = r
        /\ IF r = "InMemoryRepository"
           THEN /\ store' = guardar_usuario(store, usuario, costo, carne_bin)
                /\ guardados' = Append(guardados, usuario)
                /\ err' = err
                /\ pc' = "Print"
           ELSE IF r = "MySQLRepository"
           THEN /\ store' = store
                /\ guardados' = guardados
                /\ err' = err
                /\ pc' = "Print"
           ELSE /\ store' = store
                /\ guardados' = guardados
                /\ err' = Fallo("PersistError")
                /\ pc' = "Aborted"
    /\ UNCHANGED <<usuario, validator, card_generator, printer, costo, carne_bin,
                   store0, result, emitidos, hoy>>

\* line 178: self.repo.guardar_usuario(usuario, costo, carne_bin)
Persist ==
    /\ pc = "Persist"
    /\ calls' = Append(calls, Llamada("guardar_usuario", <<usuario, costo, carne_bin>>))
    /\ \E r \in Elegir(repo, Repos) :
        /\ repo' = r
        /\ IF r = "InMemoryRepository"
           THEN /\ store' = guardar_usuario(store, usuario, costo, carne_bin)
                /\ guardados' = Append(guardados, usuario)
                /\ err' = err
                /\ pc' = "Notify"
           ELSE IF r = "MySQLRepository"
           THEN /\ store' = store
                /\ guardados' = guardados
                /\ err' = err
                /\ pc' = "Notify"
           ELSE /\ store' = store
                /\ guardados' = guardados
                /\ err' = Fallo("PersistError")
                /\ pc' = "Aborted"
    /\ UNCHANGED <<usuario, validator, card_generator, notifier, printer, costo,
                   carne_bin, store0, logged, result, emitidos, hoy>>

\* lines 180-185 as a plausible bug would have it: no try around enviar
NotifySinTry ==
    /\ pc = "Notify"
    /\ calls' = Append(calls, Llamada("enviar", <<usuario.correo, asunto,
                                                  cuerpo(usuario, costo), carne_bin>>))
    /\ \E n \in Elegir(notifier, Notifiers) :
        /\ notifier' = n
        /\ IF n = "EmailNotifier"
           THEN /\ err' = err
                /\ pc' = "Print"
           ELSE /\ err' = Fallo("DeliveryError")
                /\ pc' = "Aborted"
    /\ UNCHANGED <<usuario, validator, card_generator, repo, printer, costo, carne_bin,
                   store, store0, guardados, logged, result, emitidos, hoy>>

\* lines 180-185: the notification, its failure caught and printed
Notify ==
    /\ pc = "Notify"
    /\ calls' = Append(calls, Llamada("enviar", <<usuario.correo, asunto,
                                                  cuerpo(usuario, costo), carne_bin>>))
    /\ \E n \in Elegir(notifier, Notifiers) :
        /\ notifier' = n
        /\ IF n = "EmailNotifier"
           THEN logged' = logged
           ELSE logged' = Append(logged, "[GestorCarne] Error enviando notificación: ")
    /\ pc' = "Print"
    /\ UNCHANGED <<usuario, validator, card_generator, repo, printer, costo, carne_bin,
                   store, store0, guardados, err, result, emitidos, hoy>>

\* lines 187-192: the print, its failure caught and printed, then the return
PrintStep ==
    /\ pc = "Print"
    /\ calls' = Append(calls, Llamada("imprimir", <<carne_bin>>))
    /\ \E p \in Elegir(printer, Printers) :
        /\ printer' = p
        /\ IF p = "ConsolePrinter"
           THEN logged' = logged
           ELSE logged' = Append(logged, "[GestorCarne] Error imprimiendo carné: ")
    /\ result' = [usuario_id |-> usuario.id, costo |-> costo]
    /\ pc' = "Done"
    /\ UNCHANGED <<usuario, validator, card_generator, repo, notifier, costo, carne_bin,
                   store, store0, guardados, err, emitidos, hoy>>

Next == Iniciar \/ Validate \/ ComputeFee \/ Render \/ Persist \/ Notify \/ PrintStep

Spec == Init /\ [][Next]_vars

NextValidar ==
    IniciarValidar \/ Validate \/ ComputeFee \/ Render \/ Persist \/ Notify \/ PrintStep

\* the validator is enumerated on one day
InitValidar == Init /\ hoy = <<2024, 1, 5>>

SpecValidar == InitValidar /\ [][NextValidar]_vars

----------------------------------------------------------------------------
(* Vocabulary of the properties *)

\* the methods entered by the current run, in order
Ops == [i \in 1..Len(calls) |-> calls[i].op]

Invocado(op) == \E i \in 1..Len(calls) : calls[i].op = op

\* the current run has executed its Validate step
Validado == pc \notin {"Idle", "Validate"}

\* the current run has executed its ComputeFee step
Tarifado == Invocado("get_costo_strategy")

\* the fees of section 4.2 of the specification
TarifaSpec ==
    (estudiante_pre :> 10) @@ (estudiante_pos :> 12) @@ (docente :> 5)
        @@ (administrativo :> 6) @@ (externo :> 20)

\* the exception class UsuarioValidator reports an invalid member with
InvalidMember == validar(NoUsuario).clase

MensajesValidator ==
    {"Nombre inválido", "Correo inválido", "Tipo de usuario desconocido: "}

\* the three rejection conditions of section 4.1 of the specification
NombreMalo(u) == u.nombre = <<>> \/ Len(strip(u.nombre)) < 2

CorreoMalo(u) == ~Contiene("@", u.correo) \/ Len(strip(u.correo)) < 5

TipoMalo(u) ==
    u.tipo \notin {estudiante_pre, estudiante_pos, docente, administrativo, externo}

\* the steps of a run in which nothing fails, and how many of them are
\* behind a run that stands at pc
OrdenPasos ==
    <<"validar", "get_costo_strategy", "calcular", "generar", "guardar_usuario",
      "enviar", "imprimir">>

Hechos ==
    ("Validate" :> 0) @@ ("ComputeFee" :> 1) @@ ("Render" :> 3) @@ ("Persist" :> 4)
        @@ ("Notify" :> 5) @@ ("Print" :> 6) @@ ("Done" :> 7)

SinFallos == err = None /\ logged = <<>>

\* the record line 178 hands to the repository
Registro == [usuario |-> usuario, costo |-> costo, carne |-> carne_bin]

----------------------------------------------------------------------------
(* Properties *)

\* C1: a run for a member UsuarioValidator rejects is aborted by the
\* validator's ValueError, which reaches the caller; validar is the only
\* collaborator method entered (no fee lookup, generar, guardar_usuario,
\* enviar or imprimir), nothing is returned and _store is as it was when
\* the run was entered.
C1_RechazoAborta ==
    (Validado /\ validator = "UsuarioValidator"
        /\ (NombreMalo(usuario) \/ CorreoMalo(usuario) \/ TipoMalo(usuario)))
    => /\ pc = "Aborted"
       /\ err.clase = InvalidMember
       /\ err.msg \in MensajesValidator
       /\ Ops = <<"validar">>
       /\ result = NoResult
       /\ store = store0

\* a rejected member's run has aborted while the store already held a record
C1_Witness ==
    /\ pc = "Aborted"
    /\ validator = "UsuarioValidator"
    /\ CorreoMalo(usuario)
    /\ Ops = <<"validar">>
    /\ Len(store0) > 0

\* C2: while nothing has failed in a run, the methods entered so far are the
\* first steps of validar, get_costo_strategy, calcular, generar,
\* guardar_usuario, enviar, imprimir, in that order, and a run that ends
\* without any failure has entered each of them exactly once.
C2_OrdenLineal ==
    (pc # "Idle" /\ SinFallos)
    => /\ pc # "Aborted"
       /\ Ops = SubSeq(OrdenPasos, 1, Hechos[pc])
       /\ (pc = "Done" => Ops = OrdenPasos)

\* a run has ended with no failure at all
C2_Witness ==
    /\ pc = "Done"
    /\ SinFallos
    /\ Len(calls) = 7
    /\ notifier = "EmailNotifier"
    /\ printer = "ConsolePrinter"

\* C3: once enviar or imprimir has raised, the run is not aborted: the
\* exception is caught and printed, no exception reaches the caller, what
\* Persist did stands (with the InMemoryRepository the record it saved is
\* still the last of _store, with the MySQLRepository stub _store is as at
\* entry), imprimir is entered after a failed enviar, and the run ends
\* returning usuario_id and the fee of the member's category, the value it
\* returns when both succeed.
C3_FallosTardiosNoFatales ==
    ((notifier = "NotifierFallido" /\ Invocado("enviar"))
        \/ (printer = "PrinterFallido" /\ Invocado("imprimir")))
    => /\ pc \in {"Print", "Done"}
       /\ err = None
       /\ logged # <<>>
       /\ repo = "InMemoryRepository" => store = Append(store0, Registro)
       /\ repo = "MySQLRepository" => store = store0
       /\ (pc = "Done"
            => /\ Ops = OrdenPasos
               /\ result = [usuario_id |-> usuario.id,
                            costo |-> TarifaSpec[usuario.tipo]])

\* a run has ended after both enviar and imprimir raised
C3_Witness ==
    /\ pc = "Done"
    /\ repo = "InMemoryRepository"
    /\ notifier = "NotifierFallido"
    /\ printer = "PrinterFallido"
    /\ Len(logged) = 2
    /\ result.usuario_id = usuario.id

\* C4: once generar or guardar_usuario has raised, the run is aborted with
\* that exception reaching the caller, nothing is returned and neither
\* enviar nor imprimir is entered; after a failed generar, guardar_usuario
\* is not entered either.
C4_RenderPersistFatales ==
    /\ card_generator = "GeneradorFallido"
        => /\ pc = "Aborted"
           /\ err = Fallo("RenderError")
           /\ result = NoResult
           /\ Ops = <<"validar", "get_costo_strategy", "calcular", "generar">>
           /\ store = store0
    /\ repo = "RepoFallido"
        => /\ pc = "Aborted"
           /\ err = Fallo("PersistError")
           /\ result = NoResult
           /\ Ops = <<"validar", "get_costo_strategy", "calcular", "generar",
                      "guardar_usuario">>

\* a run was aborted by guardar_usuario after its card was generated
C4_Witness ==
    /\ pc = "Aborted"
    /\ repo = "RepoFallido"
    /\ carne_bin # <<>>
    /\ Invocado("guardar_usuario")

\* a run was aborted by generar
C4_WitnessRender ==
    /\ pc = "Aborted"
    /\ card_generator = "GeneradorFallido"
    /\ Invocado("generar")

\* C5 as stated: a run that passed validation with a tipo outside the fee
\* mapping is aborted at the fee lookup with an error of another kind than
\* the validator's InvalidMember, before generar, guardar_usuario, enviar
\* and imprimir.
C5_Original ==
    (Tarifado /\ usuario.tipo \notin DOMAIN TarifaSpec)
    => /\ pc = "Aborted"
       /\ err.clase # InvalidMember
       /\ Ops = <<"validar", "get_costo_strategy">>

\* C5 as amended: such a run is aborted at the fee lookup by a ValueError,
\* the class the validator raises too, set apart from the validator's
\* errors by its message alone; generar, guardar_usuario, enviar and
\* imprimir are not entered, nothing is returned and _store is unchanged.
C5_CategoriaDesconocida ==
    (Tarifado /\ usuario.tipo \notin DOMAIN TarifaSpec)
    => /\ pc = "Aborted"
       /\ err = ValueError("No hay estrategia de costo para tipo: ", usuario.tipo)
       /\ err.clase = InvalidMember
       /\ err.msg \notin MensajesValidator
       /\ Ops = <<"validar", "get_costo_strategy">>
       /\ result = NoResult
       /\ store = store0

\* a run accepted by an injected validator was aborted at the fee lookup
C5_Witness ==
    /\ pc = "Aborted"
    /\ validator = "AceptaTodo"
    /\ usuario.tipo = otro
    /\ Tarifado

\* C6: the fee lookup yields 10, 12, 5, 6 and 20 for estudiante_pre,
\* estudiante_pos, docente, administrativo and externo, and for any other
\* tipo raises instead of yielding an amount; the tipos the validator
\* accepts are keys of the mapping, so after UsuarioValidator has accepted
\* a member the fee lookup does not fail.
C6_TarifaTotal ==
    /\ tipos \subseteq DOMAIN mapping
    /\ DOMAIN mapping = DOMAIN TarifaSpec
    /\ Tarifado
        => IF usuario.tipo \in DOMAIN TarifaSpec
           THEN /\ costo = TarifaSpec[usuario.tipo]
                /\ Invocado("calcular")
           ELSE /\ costo = -1
                /\ ~Invocado("calcular")
                /\ pc = "Aborted"
                /\ err.msg = "No hay estrategia de costo para tipo: "
    /\ (Tarifado /\ validator = "UsuarioValidator")
        => /\ Invocado("calcular")
           /\ costo \in {10, 12, 5, 6, 20}

\* fees were yielded for a docente accepted by UsuarioValidator
C6_Witness ==
    /\ Tarifado
    /\ validator = "UsuarioValidator"
    /\ usuario.tipo = docente
    /\ costo = 5
    /\ pc = "Render"

\* C7: UsuarioValidator.validar raises its ValueError exactly for the
\* members whose nombre is empty or shorter than 2 after strip(), whose
\* correo has no "@" or is shorter than 5 after strip(), or whose tipo is
\* not one of the five; it returns for every other member; either way the
\* Usuario it was handed and _store are as before.
C7_ValidarExacto ==
    (Validado /\ validator = "UsuarioValidator")
    => LET malo == NombreMalo(usuario) \/ CorreoMalo(usuario) \/ TipoMalo(usuario)
           rechazado == pc = "Aborted" /\ Ops = <<"validar">>
       IN  /\ malo <=> rechazado
           /\ rechazado => err.clase = InvalidMember /\ err.msg \in MensajesValidator
           /\ Len(calls) = 1
               => /\ calls[1].args = <<usuario>>
                  /\ store = store0

\* validar has rejected a member whose nombre has two characters, one after strip()
C7_Witness ==
    /\ pc = "Aborted"
    /\ validator = "UsuarioValidator"
    /\ Len(usuario.nombre) = 2
    /\ usuario.nombre[1] = VT
    /\ Len(strip(usuario.nombre)) = 1
    /\ ~CorreoMalo(usuario)
    /\ ~TipoMalo(usuario)

\* validar has accepted a member
C7_WitnessAcepta ==
    /\ pc = "ComputeFee"
    /\ validator = "UsuarioValidator"
    /\ Len(usuario.correo) = 5

\* C8: the ValueError of UsuarioValidator.validar names the first failing
\* field in the order nombre, correo, tipo, whatever the later fields are,
\* and a run it aborts has not entered guardar_usuario nor changed _store.
C8_PrimerCampo ==
    (pc = "Aborted" /\ validator = "UsuarioValidator" /\ Ops = <<"validar">>)
    => /\ err = (IF NombreMalo(usuario) THEN ValueError("Nombre inválido", <<>>)
                 ELSE IF CorreoMalo(usuario) THEN ValueError("Correo inválido", <<>>)
                 ELSE ValueError("Tipo de usuario desconocido: ", usuario.tipo))
       /\ ~Invocado("guardar_usuario")
       /\ store = store0

\* validar has reported the nombre of a member whose three fields are invalid
C8_Witness ==
    /\ pc = "Aborted"
    /\ NombreMalo(usuario)
    /\ CorreoMalo(usuario)
    /\ TipoMalo(usuario)
    /\ err.msg = "Nombre inválido"

\* C9: every run that saved has its own record in _store, and any two
\* records carry different Usuario.id, also when nombre, correo and tipo
\* are the same.
C9_SinDeduplicar ==
    /\ Len(store) = Len(guardados)
    /\ \A i, j \in 1..Len(store) :
        i # j => store[i].usuario.id # store[j].usuario.id

\* two runs for the same nombre, correo and tipo have both ended
C9_Witness ==
    /\ pc = "Done"
    /\ Len(store) = 2
    /\ store[1].usuario.nombre = store[2].usuario.nombre
    /\ store[1].usuario.correo = store[2].usuario.correo
    /\ store[1].usuario.tipo = store[2].usuario.tipo
    /\ store[1].usuario.id # store[2].usuario.id

\* C10: _store holds, in the order of the runs, one record for every run
\* that executed the save against the InMemoryRepository: the Usuario, the
\* fee of its tipo and the card generated from both; the records present
\* when a run was entered are still the first records, unchanged; and the
\* bytes a run against the InMemoryRepository handed to enviar and imprimir
\* are the bytes of the record it saved; a run built with another
\* repository leaves _store as it was.
C10_SoloAnexa ==
    /\ Len(store) = Len(guardados)
    /\ \A i \in 1..Len(store) :
        /\ store[i].usuario = guardados[i]
        /\ store[i].costo = TarifaSpec[guardados[i].tipo]
        /\ store[i].carne = generar(guardados[i], TarifaSpec[guardados[i].tipo])
    /\ Len(store0) <= Len(store)
    /\ Len(store) <= Len(store0) + 1
    /\ store0 = SubSeq(store, 1, Len(store0))
    /\ repo = "InMemoryRepository"
        => \A k \in 1..Len(calls) :
            /\ calls[k].op = "enviar" => calls[k].args[4] = store[Len(store)].carne
            /\ calls[k].op = "imprimir" => calls[k].args[1] = store[Len(store)].carne
    /\ repo # "InMemoryRepository" => store = store0

\* a second run for the same nombre, correo and tipo has saved, sent and printed
C10_Witness ==
    /\ pc = "Done"
    /\ Len(store) = 2
    /\ Len(store0) = 1
    /\ store[2].usuario.nombre = store[1].usuario.nombre
    /\ store[2].usuario.correo = store[1].usuario.correo
    /\ store[2].usuario.tipo = store[1].usuario.tipo
    /\ store[2].carne # store[1].carne
    /\ Invocado("imprimir")

====
